---- MODULE Spec2Model ----
(***************************************************************************)
(* A model of the sample-flow core of turntable: Sink (its lifecycle      *)
(* state and its sparse buffer) and Timeline (the queue of sinks, the     *)
(* playback cursor, advance / preload / set_sinks / reset /               *)
(* clear_superflous), and of the HTTP status the server gives an          *)
(* InputError.                                                             *)
(*                                                                         *)
(* A buffer is modelled by the set of sample indices it holds: the value  *)
(* of a sample plays no part in what the Timeline decides.                *)
(*                                                                         *)
(* A call is made by a thread and takes one step for every access to      *)
(* shared data (a mutex taken, an atomic loaded or stored, a buffer read  *)
(* or written, an event published), so that the steps of other threads    *)
(* fall between them as they do in the program.  ThreadSpec runs three    *)
(* threads at once; the other specifications have a single caller, as     *)
(* the tests of the repository do.                                        *)
(***************************************************************************)
EXTENDS Integers, Sequences, FiniteSets, TLC

\* ------------------------------------------------------------------ bounds

\* Longest expected_length of a sink in Spec, and so the highest sample index + 1.
MaxLen == 2
\* Largest amount the caller asks of advance in Spec.
MaxAmount == 2
\* Spec stops calling advance once total_offset would pass this.
MaxTotal == 3

\* The sinks that exist (SinkId::new() gives each one its own id).
SinkIds == {"A", "B"}

\* Option<usize>: None, and Some(n).
None == <<>>
Some(n) == <<n>>

\* Reasons an ingestion may give for SinkState::Error.
Reasons == {"e1"}

\* ------------------------------------------------------------ SinkState

Idle == [tag |-> "Idle", reason |-> ""]
Active == [tag |-> "Active", reason |-> ""]
Loading == [tag |-> "Loading", reason |-> ""]
Sealed == [tag |-> "Sealed", reason |-> ""]
Error(r) == [tag |-> "Error", reason |-> r]

SinkState == {Idle, Active, Loading, Sealed} \cup {Error(r) : r \in Reasons}

\* ------------------------------------------------------------- variables

VARIABLES
    config,           \* Timeline.config: the derived sample counts and channel_count
    expected_length,  \* Sink.expected_length, per sink: None or Some(n)
    buffer,           \* Sink.buffer, per sink: the set of sample indices held
    state,            \* Sink.state, per sink
    sinks,            \* Timeline.sinks: the list, head first
    offset,           \* Timeline.offset
    total_offset,     \* Timeline.total_offset
    pc,               \* per thread: the call it is making, where it stands in it, its locals
    mutex,            \* per mutex (the sink list, each sink's state): the thread holding it
    bus,              \* the events handed to the event bus and not yet taken off it, in order
    before,           \* what the timeline and the sinks were when the single caller's call began
    returned_total,   \* sum of the amounts of every TimelineRead returned so far
    played,           \* the sinks a TimelineRead has been returned for
    script,           \* how far the calls made so far follow scenario S1 (ScenarioSpec)
    responses         \* the HTTP responses the server has sent for input errors

vars == <<config, expected_length, buffer, state, sinks, offset, total_offset,
          pc, mutex, bus, before, returned_total, played, script,
          responses>>

\* ------------------------------------------------------------- helpers

Min(a, b) == IF a <= b THEN a ELSE b

\* usize::saturating_sub, of values below 2^31
saturating_sub(a, b) == IF a >= b THEN a - b ELSE 0

RECURSIVE SumAmounts(_)
SumAmounts(reads) ==
    IF reads = <<>> THEN 0 ELSE Head(reads).amount + SumAmounts(Tail(reads))

\* Vec::retain(|s| s.id != id)
RECURSIVE Retain(_, _)
Retain(list, id) ==
    IF list = <<>> THEN <<>>
    ELSE IF Head(list) = id THEN Retain(Tail(list), id)
    ELSE <<Head(list)>> \o Retain(Tail(list), id)

Range(list) == {list[i] : i \in 1..Len(list)}

\* Sequences over S of length n or less, a member of S any number of times.
RECURSIVE SeqsUpTo(_, _)
SeqsUpTo(S, n) ==
    IF n = 0 THEN {<<>>}
    ELSE SeqsUpTo(S, n - 1)
           \cup {Append(q, x) : q \in SeqsUpTo(S, n - 1), x \in S}

\* The lists set_sinks is called with: any Vec of sinks, empty or with a sink more
\* than once, as long as there are sinks.
Queues == SeqsUpTo(SinkIds, Cardinality(SinkIds))

\* ---------------------------------------------------- usize of 64 bits

\* A usize that may lie beyond the integers TLC computes with (a cap or a distance
\* of a sink of unknown length) is written as three digits in base 10^9, the most
\* significant first.  Offsets, amounts and lengths that are known are plain
\* integers: they stay far below 2^31.
Base == 10^9

\* The usize of the integer n, 0 <= n < 2^31.
Usize(n) == <<0, n \div Base, n % Base>>

\* usize::MAX of the 64-bit build: 18446744073709551615 = 2^64 - 1.
UsizeMax == <<18, 446744073, 709551615>>

\* a <= b
usize_le(a, b) ==
    \/ a[1] < b[1]
    \/ a[1] = b[1] /\ a[2] < b[2]
    \/ a[1] = b[1] /\ a[2] = b[2] /\ a[3] <= b[3]

\* usize::min
usize_min(a, b) == IF usize_le(a, b) THEN a ELSE b

\* usize::saturating_sub, digit by digit with the borrow
usize_saturating_sub(a, b) ==
    IF usize_le(a, b) THEN Usize(0)
    ELSE LET borrow3 == IF a[3] < b[3] THEN 1 ELSE 0
             borrow2 == IF a[2] - borrow3 < b[2] THEN 1 ELSE 0
         IN <<a[1] - borrow2 - b[1],
              a[2] - borrow3 - b[2] + borrow2 * Base,
              a[3] - b[3] + borrow3 * Base>>

\* The integer of a usize below 2^31.
usize_to_nat(u) == u[2] * Base + u[3]

\* ------------------------------------------------------------------ Sink

\* is_playable as its comment has it: "idle, loading, or sealed"
is_playable_when_idle(s) == s \in {Idle, Loading, Sealed}

is_playable(s) == s \in {Active, Loading, Sealed}

\* is_loadable that holds back while a load is in flight
is_loadable_unless_loading(s) == s = Active

\* is_loadable that takes a Sealed sink for loadable
is_loadable_when_sealed(s) == ~(s.tag = "Error" \/ s = Idle)

is_loadable(s) == ~(s.tag = "Error" \/ s = Sealed \/ s = Idle)

is_clearable(s) == s = Idle

\* iter().filter(|s| s.is_playable()).cloned().collect(), of a list and of states
\* that do not change meanwhile
RECURSIVE PlayableSinks(_, _)
PlayableSinks(list, st) ==
    IF list = <<>> THEN <<>>
    ELSE IF is_playable(st[Head(list)])
         THEN <<Head(list)>> \o PlayableSinks(Tail(list), st)
         ELSE PlayableSinks(Tail(list), st)

\* expected_length.unwrap_or(usize::MAX)
unwrap_or_max(len) == IF len = None THEN UsizeMax ELSE Usize(len[1])

\* Sink::new: the cap of the buffer
buffer_expected_length(len) == unwrap_or_max(len)

\* MultiRangeBuffer::distance_from_void: the contiguous run held from `off` on,
\* and whether that run ends at the cap.
RECURSIVE RunLength(_, _)
RunLength(buf, off) == IF off \in buf THEN 1 + RunLength(buf, off + 1) ELSE 0

distance_from_void(buf, cap, off) ==
    LET d == RunLength(buf, off)
    IN [distance |-> d, is_end |-> Usize(off + d) = cap]

\* Sink::distance_from_end
distance_from_end(len, off) ==
    usize_saturating_sub(unwrap_or_max(len), Usize(off))

\* MultiRangeBuffer::write: the samples land at [off, off + n), cut at the cap.
write(buf, cap, off, n) ==
    buf \cup {i \in off..(off + n - 1) : ~usize_le(cap, Usize(i))}

\* MultiRangeBuffer::retain_window: keep what lies within `window` of `off`, the
\* window rounded outward to multiples of `chunk`.
retain_window(buf, off, window, chunk) ==
    LET lo == (saturating_sub(off, window) \div chunk) * chunk
        hi == ((off + window + chunk - 1) \div chunk) * chunk
    IN {i \in buf : lo <= i /\ i < hi}

\* Sink::clear_outside
clear_outside(buf, off, window, chunk_size) == retain_window(buf, off, window, chunk_size)

\* PipelineContext::emit: the event is appended to the bus; the producer is never
\* blocked.
emit(events, event) == Append(events, event)

\* -------------------------------------------------------------- Timeline

\* Timeline::is_empty
is_empty == sinks = <<>>

\* amount_to_read without the .min(remaining)
amount_to_read_unclamped(available_until_void, remaining) ==
    available_until_void.distance

\* advance: available_until_void.distance.min(remaining)
amount_to_read(available_until_void, remaining) ==
    Min(available_until_void.distance, remaining)

\* should_move_on without "the sink is sealed/not loadable"
should_move_on_ignores_loadable(sink_state, available_until_void, amount) ==
    /\ available_until_void.is_end
    /\ saturating_sub(available_until_void.distance, amount) = 0

\* advance: the three conditions for moving on to the next sink
should_move_on(sink_state, available_until_void, amount) ==
    /\ ~is_loadable(sink_state)
    /\ available_until_void.is_end
    /\ saturating_sub(available_until_void.distance, amount) = 0

\* no_need_to_preload without the threshold
no_need_to_preload_ignores_threshold(available_until_void, threshold, remaining_to_load) ==
    remaining_to_load = 0

\* preload: "No need to preload if we're under the threshold, or if we satisfied the
\* remaining to load."
no_need_to_preload(available_until_void, threshold, remaining_to_load) ==
    available_until_void.distance >= threshold \/ remaining_to_load = 0

\* preload: available_until_end.min(remaining_to_load); the least of the two is no
\* more than remaining_to_load, an integer
how_much_can_preload(available_until_end, remaining_to_load) ==
    usize_to_nat(usize_min(available_until_end, Usize(remaining_to_load)))

\* preload_offset without the run that is already buffered
preload_offset_at_cursor(available_until_void, off) == off

\* preload: available_until_void.distance + offset
preload_offset(available_until_void, off) == available_until_void.distance + off

\* ------------------------------------------------- threads, mutexes, calls

\* The threads: the audio thread, the owner of the timeline, an ingestion worker.
Threads == {"audio", "owner", "worker"}

\* The thread that makes every call where there is a single caller.
Caller == "owner"

\* No thread holds the mutex.
Free == "free"

\* The mutex of the sink list; a sink's state mutex goes by the sink's id.
SinksMutex == "sinks"

\* The calls a thread makes.
NoCall ==
    [name |-> "", amount |-> 0, list |-> <<>>, sink |-> "", new |-> Idle,
     offset |-> 0, window |-> 0, chunk_size |-> 0]
AdvanceCall(amount) == [NoCall EXCEPT !.name = "advance", !.amount = amount]
SetSinksCall(list) == [NoCall EXCEPT !.name = "set_sinks", !.list = list]
PreloadCall == [NoCall EXCEPT !.name = "preload"]
ClearSuperflousCall == [NoCall EXCEPT !.name = "clear_superflous"]
ResetCall == [NoCall EXCEPT !.name = "reset"]
SetStateCall(id, new) == [NoCall EXCEPT !.name = "set_state", !.sink = id, !.new = new]
WriteCall(id, off, n) ==
    [NoCall EXCEPT !.name = "write", !.sink = id, !.offset = off, !.amount = n]
ClearOutsideCall(id, off, window, chunk_size) ==
    [NoCall EXCEPT !.name = "clear_outside", !.sink = id, !.offset = off,
                   !.window = window, !.chunk_size = chunk_size]

\* A thread: the calls it has to make one after the other (`program`), how many of
\* them it has begun (`done`), the call it is making or made last (`call`), where it
\* stands in it (`at`), the locals of that call, and the Vec it returns (`result` of
\* advance, `intents` of preload).
Thread(program) ==
    [at |-> "returned", call |-> NoCall, program |-> program, done |-> 0,
     list |-> <<>>, k |-> 0, remaining |-> 0, playback_offset |-> 0, new_offset |-> 0,
     available_until_void |-> [distance |-> 0, is_end |-> FALSE],
     available_until_end |-> Usize(0), amount_to_read |-> 0,
     sink |-> "", new |-> Idle, ret |-> "",
     result |-> <<>>, intents |-> <<>>]

\* Where a call begins.
EntryOf(call) ==
    CASE call.name = "advance" -> "advance: sinks.lock()"
      [] call.name = "set_sinks" -> "set_sinks: sinks.lock()"
      [] call.name = "preload" -> "preload: sinks.lock()"
      [] call.name = "clear_superflous" -> "clear_superflous: sinks.lock()"
      [] call.name = "reset" -> "reset: offset.store(0)"
      [] call.name = "set_state" -> "set_state: state.lock()"
      [] call.name = "write" -> "write: buffer.write"
      [] call.name = "clear_outside" -> "clear_outside: buffer.retain_window"

\* The thread as it enters `call`: the arguments become locals.
Enter(thread, call) ==
    [Thread(thread.program) EXCEPT
        !.done = thread.done,
        !.at = EntryOf(call),
        !.call = call,
        !.remaining = call.amount,
        !.list = call.list,
        !.sink = call.sink,
        !.new = call.new,
        !.ret = "return"]

\* The thread as it has returned: the locals are gone, what it returned is kept
\* until its next call, and of the call its name.
Leave(thread) ==
    [Thread(thread.program) EXCEPT
        !.done = thread.done,
        !.call = [NoCall EXCEPT !.name = thread.call.name],
        !.result = thread.result,
        !.intents = thread.intents]

\* What the timeline and the sinks are as thread t makes `call`, and for a preload that
\* follows a preload what the first returned.
Snapshot(t, call) ==
    LET again == call.name = "preload" /\ pc[t].call.name = "preload"
    IN [sinks |-> sinks, state |-> state, offset |-> offset,
        total_offset |-> total_offset, buffer |-> buffer,
        again |-> again, intents |-> IF again THEN pc[t].intents ELSE <<>>]

\* No call of the single caller is in progress.
NoBefore ==
    [sinks |-> <<>>, state |-> [id \in SinkIds |-> Idle], offset |-> 0,
     total_offset |-> 0, buffer |-> [id \in SinkIds |-> {}], again |-> FALSE,
     intents |-> <<>>]

\* The sinks played are not kept track of; they are, and none is played yet.
NotPlayed == [on |-> FALSE, sinks |-> {}]
NonePlayed == [on |-> TRUE, sinks |-> {}]

\* Not following a scenario.
NoScript == [on |-> FALSE, at |-> 0]

\* Sink::new(Some(10)) of test_advancement and test_preload
ScenarioLength == 10

\* Scenario S1, in the order the specification lists its calls.
S1Script ==
    <<WriteCall("A", 0, ScenarioLength), SetStateCall("A", Sealed),
      WriteCall("B", 0, 5), SetSinksCall(<<"A", "B">>),
      AdvanceCall(5), AdvanceCall(4), AdvanceCall(5), AdvanceCall(1)>>

\* script counts the calls made while they are exactly the first calls of S1.
Track(call) ==
    IF script.on /\ script.at < Len(S1Script) /\ S1Script[script.at + 1] = call
    THEN [on |-> TRUE, at |-> script.at + 1]
    ELSE NoScript

\* What no step of a call changes.
fixed == <<config, expected_length, responses>>

\* What only the beginning and the end of a call change.
history == <<before, returned_total, played, script>>

\* The thread begins the next call of its program.
Begin(t) ==
    /\ pc[t].at = "returned"
    /\ pc[t].done < Len(pc[t].program)
    /\ pc' = [pc EXCEPT ![t] = [Enter(pc[t], pc[t].program[pc[t].done + 1])
                                   EXCEPT !.done = @ + 1]]
    /\ UNCHANGED <<fixed, history, buffer, state, sinks, offset, total_offset, mutex, bus>>

\* The single caller makes a call: any call, once its last has returned.  The events
\* of earlier calls are taken off the bus, and what the timeline and the sinks are
\* now is kept for when the call returns.
Call(t, call) ==
    /\ pc[t].at = "returned"
    /\ pc[t].done = Len(pc[t].program)
    /\ pc' = [pc EXCEPT ![t] = Enter(pc[t], call)]
    /\ bus' = <<>>
    /\ before' = Snapshot(t, call)
    /\ script' = Track(call)
    /\ UNCHANGED <<fixed, returned_total, played, buffer, state, sinks, offset,
                   total_offset, mutex>>

\* The call returns: the reads of an advance are handed to the player.
Return(t) ==
    /\ pc[t].at = "return"
    /\ pc' = [pc EXCEPT ![t] = Leave(pc[t])]
    /\ returned_total' = returned_total + SumAmounts(pc[t].result)
    /\ played' = IF played.on
                 THEN [played EXCEPT
                         !.sinks = @ \cup {pc[t].result[i].sink : i \in 1..Len(pc[t].result)}]
                 ELSE played
    /\ before' = NoBefore
    /\ UNCHANGED <<fixed, script, buffer, state, sinks, offset, total_offset, mutex, bus>>

\* ------------------------------------------------------ Sink, step by step

\* set_state that does not wait for the state mutex
SetStateLock_without_mutex(t) ==
    /\ pc[t].at = "set_state: state.lock()"
    /\ pc' = [pc EXCEPT ![t].at = "set_state: emit"]
    /\ UNCHANGED <<fixed, history, buffer, state, sinks, offset, total_offset, mutex, bus>>

\* Sink::set_state: let mut current_state = self.state.lock()
SetStateLock(t) ==
    /\ pc[t].at = "set_state: state.lock()"
    /\ mutex[pc[t].sink] = Free
    /\ mutex' = [mutex EXCEPT ![pc[t].sink] = t]
    /\ pc' = [pc EXCEPT ![t].at = "set_state: emit"]
    /\ UNCHANGED <<fixed, history, buffer, state, sinks, offset, total_offset, bus>>

\* set_state that takes two errors for the same state whatever their reasons
SetStateEmit_comparing_tags(t) ==
    /\ pc[t].at = "set_state: emit"
    /\ IF state[pc[t].sink].tag # pc[t].new.tag
       THEN /\ bus' = emit(bus, [sink_id |-> pc[t].sink, new_state |-> pc[t].new])
            /\ pc' = [pc EXCEPT ![t].at = "set_state: store"]
            /\ UNCHANGED mutex
       ELSE /\ mutex' = [mutex EXCEPT ![pc[t].sink] = Free]
            /\ pc' = [pc EXCEPT ![t].at = pc[t].ret]
            /\ UNCHANGED bus
    /\ UNCHANGED <<fixed, history, buffer, state, sinks, offset, total_offset>>

\* Sink::set_state: if *current_state != state { self.context.emit(..) }; when
\* the state is the same the guard is dropped and the call returns.
SetStateEmit(t) ==
    /\ pc[t].at = "set_state: emit"
    /\ IF state[pc[t].sink] # pc[t].new
       THEN /\ bus' = emit(bus, [sink_id |-> pc[t].sink, new_state |-> pc[t].new])
            /\ pc' = [pc EXCEPT ![t].at = "set_state: store"]
            /\ UNCHANGED mutex
       ELSE /\ mutex' = [mutex EXCEPT ![pc[t].sink] = Free]
            /\ pc' = [pc EXCEPT ![t].at = pc[t].ret]
            /\ UNCHANGED bus
    /\ UNCHANGED <<fixed, history, buffer, state, sinks, offset, total_offset>>

\* Sink::set_state: *current_state = state, and the guard is dropped.
SetStateStore(t) ==
    /\ pc[t].at = "set_state: store"
    /\ state' = [state EXCEPT ![pc[t].sink] = pc[t].new]
    /\ mutex' = [mutex EXCEPT ![pc[t].sink] = Free]
    /\ pc' = [pc EXCEPT ![t].at = pc[t].ret]
    /\ UNCHANGED <<fixed, history, buffer, sinks, offset, total_offset, bus>>

\* Sink::set_state, and so Sink::activate and Sink::deactivate, step by step
SetStateStep(t) ==
    \/ SetStateLock(t)
    \/ SetStateEmit(t)
    \/ SetStateStore(t)

\* Sink::write: self.buffer.write(offset, samples)
SinkWrite(t) ==
    /\ pc[t].at = "write: buffer.write"
    /\ buffer' = [buffer EXCEPT
                    ![pc[t].sink] =
                        write(@, buffer_expected_length(expected_length[pc[t].sink]),
                              pc[t].call.offset, pc[t].call.amount)]
    /\ pc' = [pc EXCEPT ![t].at = "return"]
    /\ UNCHANGED <<fixed, history, state, sinks, offset, total_offset, mutex, bus>>

\* Sink::clear_outside, called on the sink itself:
\* self.buffer.retain_window(offset, window, chunk_size)
SinkClearOutside(t) ==
    /\ pc[t].at = "clear_outside: buffer.retain_window"
    /\ buffer' = [buffer EXCEPT
                    ![pc[t].sink] =
                        clear_outside(@, pc[t].call.offset, pc[t].call.window,
                                      pc[t].call.chunk_size)]
    /\ pc' = [pc EXCEPT ![t].at = "return"]
    /\ UNCHANGED <<fixed, history, state, sinks, offset, total_offset, mutex, bus>>

\* -------------------------------------------------- Timeline, step by step

\* advance: self.sinks.lock()
AdvanceLock(t) ==
    /\ pc[t].at = "advance: sinks.lock()"
    /\ mutex[SinksMutex] = Free
    /\ mutex' = [mutex EXCEPT ![SinksMutex] = t]
    /\ pc' = [pc EXCEPT ![t].at = "advance: filter", ![t].list = <<>>, ![t].k = 1]
    /\ UNCHANGED <<fixed, history, buffer, state, sinks, offset, total_offset, bus>>

\* advance that hands every queued sink to the loop
AdvanceFilter_unfiltered(t) ==
    /\ pc[t].at = "advance: filter"
    /\ pc[t].k <= Len(sinks)
    /\ mutex[sinks[pc[t].k]] = Free
    /\ pc' = [pc EXCEPT ![t].list = Append(@, sinks[pc[t].k]), ![t].k = @ + 1]
    /\ UNCHANGED <<fixed, history, buffer, state, sinks, offset, total_offset, mutex, bus>>

\* advance: .filter(|s| s.is_playable()), one sink at a time: Sink::state locks
\* the sink's state, clones it and unlocks.
AdvanceFilter(t) ==
    /\ pc[t].at = "advance: filter"
    /\ pc[t].k <= Len(sinks)
    /\ mutex[sinks[pc[t].k]] = Free
    /\ pc' = [pc EXCEPT
                ![t].list = IF is_playable(state[sinks[pc[t].k]])
                            THEN Append(@, sinks[pc[t].k]) ELSE @,
                ![t].k = @ + 1]
    /\ UNCHANGED <<fixed, history, buffer, state, sinks, offset, total_offset, mutex, bus>>

\* advance: .collect(), and the guard of the list is dropped with the statement.
AdvanceCollect(t) ==
    /\ pc[t].at = "advance: filter"
    /\ pc[t].k > Len(sinks)
    /\ mutex' = [mutex EXCEPT ![SinksMutex] = Free]
    /\ pc' = [pc EXCEPT ![t].at = "advance: offset.load()", ![t].k = 1]
    /\ UNCHANGED <<fixed, history, buffer, state, sinks, offset, total_offset, bus>>

\* advance: let mut playback_offset = self.offset.load()
AdvanceLoad(t) ==
    /\ pc[t].at = "advance: offset.load()"
    /\ pc' = [pc EXCEPT ![t].playback_offset = offset, ![t].at = "advance: for sink"]
    /\ UNCHANGED <<fixed, history, buffer, state, sinks, offset, total_offset, mutex, bus>>

\* advance: the head of the for loop: no sink or nothing left to read and the call
\* returns; or sink.distance_from_void(playback_offset) reads the buffer, and when
\* there are samples to read the read is pushed.  playback_offset is reset here, its
\* use for the store kept in new_offset.
AdvanceMeasure(t) ==
    /\ pc[t].at = "advance: for sink"
    /\ pc' = IF pc[t].k > Len(pc[t].list) \/ pc[t].remaining = 0
             THEN [pc EXCEPT ![t].at = "return"]
             ELSE LET sink == pc[t].list[pc[t].k]
                      available_until_void ==
                          distance_from_void(buffer[sink],
                                             buffer_expected_length(expected_length[sink]),
                                             pc[t].playback_offset)
                      amount == amount_to_read(available_until_void, pc[t].remaining)
                  IN [pc EXCEPT
                        ![t].sink = sink,
                        ![t].available_until_void = available_until_void,
                        ![t].amount_to_read = amount,
                        ![t].new_offset = pc[t].playback_offset + amount,
                        ![t].remaining = @ - amount,
                        ![t].result =
                            IF amount > 0
                            THEN Append(@, [offset |-> pc[t].playback_offset,
                                            sink |-> sink, amount |-> amount])
                            ELSE @,
                        ![t].playback_offset = 0,
                        ![t].at = IF amount > 0 THEN "advance: total_offset.fetch_add"
                                  ELSE "advance: should_move_on"]
    /\ UNCHANGED <<fixed, history, buffer, state, sinks, offset, total_offset, mutex, bus>>

\* advance that does not count what it reads
AdvanceFetchAdd_not_counting(t) ==
    /\ pc[t].at = "advance: total_offset.fetch_add"
    /\ pc' = [pc EXCEPT ![t].at = "advance: offset.store(new_offset)"]
    /\ UNCHANGED <<fixed, history, buffer, state, sinks, offset, total_offset, mutex, bus>>

\* advance: self.total_offset.fetch_add(amount_to_read)
AdvanceFetchAdd(t) ==
    /\ pc[t].at = "advance: total_offset.fetch_add"
    /\ total_offset' = total_offset + pc[t].amount_to_read
    /\ pc' = [pc EXCEPT ![t].at = "advance: offset.store(new_offset)"]
    /\ UNCHANGED <<fixed, history, buffer, state, sinks, offset, mutex, bus>>

\* advance: self.offset.store(new_offset)
AdvanceStoreOffset(t) ==
    /\ pc[t].at = "advance: offset.store(new_offset)"
    /\ offset' = pc[t].new_offset
    /\ pc' = [pc EXCEPT ![t].at = "advance: should_move_on"]
    /\ UNCHANGED <<fixed, history, buffer, state, sinks, total_offset, mutex, bus>>

\* advance that takes the mutex of the list before it deactivates the sink and
\* keeps it until the sink is retained out
AdvanceShouldMoveOn_locking_list(t) ==
    /\ pc[t].at = "advance: should_move_on"
    /\ mutex[pc[t].sink] = Free
    /\ mutex[SinksMutex] = Free
    /\ IF should_move_on(state[pc[t].sink], pc[t].available_until_void,
                         pc[t].amount_to_read)
       THEN /\ pc' = [pc EXCEPT ![t].at = "set_state: state.lock()",
                                ![t].new = Idle,
                                ![t].ret = "advance: retain"]
            /\ mutex' = [mutex EXCEPT ![SinksMutex] = t]
       ELSE /\ pc' = [pc EXCEPT ![t].at = "return"]
            /\ UNCHANGED mutex
    /\ UNCHANGED <<fixed, history, buffer, state, sinks, offset, total_offset, bus>>

\* advance: let should_move_on = !sink.is_loadable() && ..: Sink::state locks the
\* sink's state, clones it and unlocks; then the break, or on to sink.deactivate().
AdvanceShouldMoveOn(t) ==
    /\ pc[t].at = "advance: should_move_on"
    /\ mutex[pc[t].sink] = Free
    /\ pc' = IF should_move_on(state[pc[t].sink], pc[t].available_until_void,
                               pc[t].amount_to_read)
             THEN [pc EXCEPT ![t].at = "set_state: state.lock()",
                             ![t].new = Idle,
                             ![t].ret = "advance: offset.store(0)"]
             ELSE [pc EXCEPT ![t].at = "return"]
    /\ UNCHANGED <<fixed, history, buffer, state, sinks, offset, total_offset, mutex, bus>>

\* advance that leaves the cursor where the sink it moves on from ended
AdvanceStore_keeping_offset(t) ==
    /\ pc[t].at = "advance: offset.store(0)"
    /\ pc' = [pc EXCEPT ![t].at = "advance: retain"]
    /\ UNCHANGED <<fixed, history, buffer, state, sinks, offset, total_offset, mutex, bus>>

\* advance: self.offset.store(0)
AdvanceStore(t) ==
    /\ pc[t].at = "advance: offset.store(0)"
    /\ offset' = 0
    /\ pc' = [pc EXCEPT ![t].at = "advance: retain"]
    /\ UNCHANGED <<fixed, history, buffer, state, sinks, total_offset, mutex, bus>>

\* advance that leaves the sink it moves on from in the list
AdvanceRetain_keeping_sink(t) ==
    /\ pc[t].at = "advance: retain"
    /\ mutex[SinksMutex] = Free
    /\ pc' = [pc EXCEPT ![t].k = @ + 1, ![t].at = "advance: for sink"]
    /\ UNCHANGED <<fixed, history, buffer, state, sinks, offset, total_offset, mutex, bus>>

\* advance: self.sinks.lock().retain(|s| s.id != sink.id), the guard dropped with
\* the statement; the mutex is not reentrant.
AdvanceRetain(t) ==
    /\ pc[t].at = "advance: retain"
    /\ mutex[SinksMutex] = Free
    /\ sinks' = Retain(sinks, pc[t].sink)
    /\ pc' = [pc EXCEPT ![t].k = @ + 1, ![t].at = "advance: for sink"]
    /\ UNCHANGED <<fixed, history, buffer, state, offset, total_offset, mutex, bus>>

\* Timeline::advance, step by step; its sink.deactivate() takes the steps of set_state
AdvanceStep(t) ==
    \/ AdvanceLock(t)
    \/ AdvanceFilter(t)
    \/ AdvanceCollect(t)
    \/ AdvanceLoad(t)
    \/ AdvanceMeasure(t)
    \/ AdvanceFetchAdd(t)
    \/ AdvanceStoreOffset(t)
    \/ AdvanceShouldMoveOn(t)
    \/ AdvanceStore(t)
    \/ AdvanceRetain(t)

\* set_sinks: let mut current_sinks = self.sinks.lock()
SetSinksLock(t) ==
    /\ pc[t].at = "set_sinks: sinks.lock()"
    /\ mutex[SinksMutex] = Free
    /\ mutex' = [mutex EXCEPT ![SinksMutex] = t]
    /\ pc' = [pc EXCEPT ![t].at = "set_sinks: deactivate", ![t].k = 1]
    /\ UNCHANGED <<fixed, history, buffer, state, sinks, offset, total_offset, bus>>

\* set_sinks: for sink in current_sinks.iter() { sink.deactivate() }
SetSinksDeactivate(t) ==
    /\ pc[t].at = "set_sinks: deactivate"
    /\ pc' = IF pc[t].k <= Len(sinks)
             THEN [pc EXCEPT ![t].at = "set_state: state.lock()",
                             ![t].sink = sinks[pc[t].k],
                             ![t].new = Idle,
                             ![t].ret = "set_sinks: deactivate",
                             ![t].k = @ + 1]
             ELSE [pc EXCEPT ![t].at = "set_sinks: activate", ![t].k = 1]
    /\ UNCHANGED <<fixed, history, buffer, state, sinks, offset, total_offset, mutex, bus>>

\* set_sinks that puts the cursor back to 0 with the new list
SetSinksActivate_resetting_offset(t) ==
    /\ pc[t].at = "set_sinks: activate"
    /\ IF pc[t].k <= Len(pc[t].list)
       THEN /\ pc' = [pc EXCEPT ![t].at = "set_state: state.lock()",
                                ![t].sink = pc[t].list[pc[t].k],
                                ![t].new = Active,
                                ![t].ret = "set_sinks: activate",
                                ![t].k = @ + 1]
            /\ UNCHANGED <<sinks, mutex, offset>>
       ELSE /\ sinks' = pc[t].list
            /\ offset' = 0
            /\ mutex' = [mutex EXCEPT ![SinksMutex] = Free]
            /\ pc' = [pc EXCEPT ![t].at = "return"]
    /\ UNCHANGED <<fixed, history, buffer, state, total_offset, bus>>

\* set_sinks: for sink in sinks.iter() { sink.activate() }, then
\* *current_sinks = sinks and the guard is dropped.
SetSinksActivate(t) ==
    /\ pc[t].at = "set_sinks: activate"
    /\ IF pc[t].k <= Len(pc[t].list)
       THEN /\ pc' = [pc EXCEPT ![t].at = "set_state: state.lock()",
                                ![t].sink = pc[t].list[pc[t].k],
                                ![t].new = Active,
                                ![t].ret = "set_sinks: activate",
                                ![t].k = @ + 1]
            /\ UNCHANGED <<sinks, mutex>>
       ELSE /\ sinks' = pc[t].list
            /\ mutex' = [mutex EXCEPT ![SinksMutex] = Free]
            /\ pc' = [pc EXCEPT ![t].at = "return"]
    /\ UNCHANGED <<fixed, history, buffer, state, offset, total_offset, bus>>

\* Timeline::set_sinks, step by step; its deactivate() and activate() take the steps
\* of set_state
SetSinksStep(t) ==
    \/ SetSinksLock(t)
    \/ SetSinksDeactivate(t)
    \/ SetSinksActivate(t)

\* preload: self.sinks.lock().iter().cloned().collect()
PreloadSnapshot(t) ==
    /\ pc[t].at = "preload: sinks.lock()"
    /\ mutex[SinksMutex] = Free
    /\ pc' = [pc EXCEPT ![t].list = sinks, ![t].k = 1,
                        ![t].at = "preload: offset.load()"]
    /\ UNCHANGED <<fixed, history, buffer, state, sinks, offset, total_offset, mutex, bus>>

\* preload: let mut remaining_to_load = threshold; let mut offset = self.offset.load()
PreloadLoad(t) ==
    /\ pc[t].at = "preload: offset.load()"
    /\ pc' = [pc EXCEPT ![t].playback_offset = offset,
                        ![t].remaining = config.preload_threshold_in_samples,
                        ![t].at = "preload: for sink"]
    /\ UNCHANGED <<fixed, history, buffer, state, sinks, offset, total_offset, mutex, bus>>

\* preload: the head of the for loop: the distances of the sink, and the break
\* when there is no need to preload.
PreloadMeasure(t) ==
    /\ pc[t].at = "preload: for sink"
    /\ pc' = IF pc[t].k > Len(pc[t].list)
             THEN [pc EXCEPT ![t].at = "return"]
             ELSE LET sink == pc[t].list[pc[t].k]
                      available_until_void ==
                          distance_from_void(buffer[sink],
                                             buffer_expected_length(expected_length[sink]),
                                             pc[t].playback_offset)
                  IN IF no_need_to_preload(available_until_void,
                                           config.preload_threshold_in_samples,
                                           pc[t].remaining)
                     THEN [pc EXCEPT ![t].at = "return"]
                     ELSE [pc EXCEPT
                             ![t].sink = sink,
                             ![t].available_until_void = available_until_void,
                             ![t].available_until_end =
                                 distance_from_end(expected_length[sink],
                                                   pc[t].playback_offset),
                             ![t].at = "preload: is_loadable"]
    /\ UNCHANGED <<fixed, history, buffer, state, sinks, offset, total_offset, mutex, bus>>

\* preload that leaves the cursor at the offset of the intent it gives
PreloadIsLoadable_moving_cursor(t) ==
    /\ pc[t].at = "preload: is_loadable"
    /\ mutex[pc[t].sink] = Free
    /\ IF is_loadable(state[pc[t].sink])
       THEN /\ offset' = preload_offset(pc[t].available_until_void, pc[t].playback_offset)
            /\ pc' = [pc EXCEPT
                        ![t].intents =
                            Append(@, [sink_id |-> pc[t].sink,
                                       offset |-> preload_offset(pc[t].available_until_void,
                                                                 pc[t].playback_offset)]),
                        ![t].remaining =
                            @ - how_much_can_preload(pc[t].available_until_end, @),
                        ![t].playback_offset = 0,
                        ![t].k = @ + 1,
                        ![t].at = "preload: for sink"]
       ELSE /\ offset' = offset
            /\ pc' = [pc EXCEPT ![t].playback_offset = 0,
                                ![t].k = @ + 1,
                                ![t].at = "preload: for sink"]
    /\ UNCHANGED <<fixed, history, buffer, state, sinks, total_offset, mutex, bus>>

\* preload: if sink.is_loadable() { result.push(..); remaining_to_load -= .. };
\* offset = 0.  Sink::state locks the sink's state, clones it and unlocks.
PreloadIsLoadable(t) ==
    /\ pc[t].at = "preload: is_loadable"
    /\ mutex[pc[t].sink] = Free
    /\ pc' = IF is_loadable(state[pc[t].sink])
             THEN [pc EXCEPT
                     ![t].intents =
                         Append(@, [sink_id |-> pc[t].sink,
                                    offset |-> preload_offset(pc[t].available_until_void,
                                                              pc[t].playback_offset)]),
                     ![t].remaining =
                         @ - how_much_can_preload(pc[t].available_until_end, @),
                     ![t].playback_offset = 0,
                     ![t].k = @ + 1,
                     ![t].at = "preload: for sink"]
             ELSE [pc EXCEPT ![t].playback_offset = 0,
                             ![t].k = @ + 1,
                             ![t].at = "preload: for sink"]
    /\ UNCHANGED <<fixed, history, buffer, state, sinks, offset, total_offset, mutex, bus>>

\* Timeline::preload, step by step
PreloadStep(t) ==
    \/ PreloadSnapshot(t)
    \/ PreloadLoad(t)
    \/ PreloadMeasure(t)
    \/ PreloadIsLoadable(t)

\* clear_superflous: let first_sink = self.sinks.lock()
ClearLock(t) ==
    /\ pc[t].at = "clear_superflous: sinks.lock()"
    /\ mutex[SinksMutex] = Free
    /\ mutex' = [mutex EXCEPT ![SinksMutex] = t]
    /\ pc' = [pc EXCEPT ![t].at = "clear_superflous: offset.load()"]
    /\ UNCHANGED <<fixed, history, buffer, state, sinks, offset, total_offset, bus>>

\* clear_superflous: let offset = self.offset.load()
ClearLoad(t) ==
    /\ pc[t].at = "clear_superflous: offset.load()"
    /\ pc' = [pc EXCEPT ![t].playback_offset = offset,
                        ![t].at = "clear_superflous: clear_outside"]
    /\ UNCHANGED <<fixed, history, buffer, state, sinks, offset, total_offset, mutex, bus>>

\* clear_superflous: if let Some(first_sink) = first_sink.first()
\* { first_sink.clear_outside(..) }, and the guard is dropped.
ClearOutside(t) ==
    /\ pc[t].at = "clear_superflous: clear_outside"
    /\ buffer' = IF sinks = <<>> THEN buffer
                 ELSE [buffer EXCEPT
                         ![Head(sinks)] =
                             clear_outside(@, pc[t].playback_offset,
                                           config.preload_size_in_samples * 4,
                                           config.channel_count)]
    /\ mutex' = [mutex EXCEPT ![SinksMutex] = Free]
    /\ pc' = [pc EXCEPT ![t].at = "return"]
    /\ UNCHANGED <<fixed, history, state, sinks, offset, total_offset, bus>>

\* Timeline::clear_superflous, step by step
ClearSuperflousStep(t) ==
    \/ ClearLock(t)
    \/ ClearLoad(t)
    \/ ClearOutside(t)

\* reset: self.offset.store(0)
ResetStore(t) ==
    /\ pc[t].at = "reset: offset.store(0)"
    /\ offset' = 0
    /\ pc' = [pc EXCEPT ![t].at = "return"]
    /\ UNCHANGED <<fixed, history, buffer, state, sinks, total_offset, mutex, bus>>

\* No thread is in a call, every mutex is free, nothing is on the bus.
Quiet(programs) ==
    /\ pc = [t \in Threads |-> Thread(programs[t])]
    /\ mutex = [m \in {SinksMutex} \cup SinkIds |-> Free]
    /\ bus = <<>>
    /\ before = NoBefore

\* No thread has a program: the calls are the single caller's, chosen as it goes.
NoPrograms == [t \in Threads |-> <<>>]

\* Timeline::new and Sink::new: nothing queued, nothing buffered, every sink Idle,
\* nothing read.
Fresh ==
    /\ buffer = [id \in SinkIds |-> {}]
    /\ state = [id \in SinkIds |-> Idle]
    /\ sinks = <<>>
    /\ offset = 0
    /\ total_offset = 0
    /\ returned_total = 0
    /\ responses = <<>>

\* ------------------------------------------------- Spec: every small input

\* A configuration whose preload threshold a sink of Spec can reach.
SmallConfig ==
    [preload_threshold_in_samples |-> MaxLen,
     preload_size_in_samples |-> 1,
     channel_count |-> 1]

\* The lengths the sinks of Spec are created with: two tracks of known and different
\* length, or a track and a live stream.  advance and set_sinks treat every sink
\* alike and Spec queues the sinks in every order, so the profiles with A and B
\* swapped add nothing.
LengthProfiles ==
    {[id \in SinkIds |-> IF id = "A" THEN Some(MaxLen) ELSE Some(MaxLen - 1)],
     [id \in SinkIds |-> IF id = "A" THEN Some(MaxLen) ELSE None]}

\* Where the writes of Spec end: one sample past the shorter track, so that a write
\* is cut at the cap, and MaxLen - 1 samples into the live stream, which has no end
\* to reach.
WriteLimit(id) == IF expected_length[id] = None THEN MaxLen - 1 ELSE MaxLen

\* The calls of the player, of the owner of the timeline and of the ingestion, with
\* every small argument.
SpecCalls ==
    {SetSinksCall(new) : new \in Queues}
      \cup {AdvanceCall(amount) : amount \in 0..MaxAmount}
      \cup {PreloadCall, ClearSuperflousCall, ResetCall}
      \cup {WriteCall(id, off, n) : id \in SinkIds, off \in 0..(MaxLen - 1), n \in 1..MaxLen}
      \cup {SetStateCall(id, new) : id \in SinkIds, new \in SinkState}

\* Spec makes the call: advance while total_offset stays within MaxTotal, write up
\* to the WriteLimit of the sink.
SpecCall(call) ==
    /\ call.name = "advance" => total_offset + call.amount <= MaxTotal
    /\ call.name = "write" => call.offset + call.amount <= WriteLimit(call.sink)
    /\ Call(Caller, call)

Init ==
    /\ config = SmallConfig
    /\ expected_length \in LengthProfiles
    /\ Fresh
    /\ played = NotPlayed
    /\ script = NoScript
    /\ Quiet(NoPrograms)

\* One caller makes the calls, in any order, each returned before the next begins.
Next ==
    \/ \E call \in SpecCalls : SpecCall(call)
    \/ SetSinksStep(Caller)
    \/ AdvanceStep(Caller)
    \/ PreloadStep(Caller)
    \/ ClearSuperflousStep(Caller)
    \/ ResetStore(Caller)
    \/ SinkWrite(Caller)
    \/ SetStateStep(Caller)
    \/ Return(Caller)

Spec == Init /\ [][Next]_vars

\* ------------------------------- ScenarioSpec: the calls of the test scenarios

\* ScenarioSpec stops calling advance once total_offset would pass this.
ScenarioMaxTotal == 15

\* The configuration of test_preload: sample_rate 1, channel_count 1 and a
\* threshold of 3 seconds, so 3 samples.
TestConfig ==
    [preload_threshold_in_samples |-> 3,
     preload_size_in_samples |-> 1,
     channel_count |-> 1]

\* The calls the scenarios make on the two sinks of test_advancement.
ScenarioCalls ==
    {SetSinksCall(<<"A", "B">>), ClearSuperflousCall}
      \cup {AdvanceCall(amount) : amount \in {1, 4, 5, ScenarioLength}}
      \cup {WriteCall("A", 0, ScenarioLength), WriteCall("A", 0, 3), WriteCall("B", 0, 5)}
      \cup {SetStateCall("A", Sealed), SetStateCall("A", Error("e1")),
            SetStateCall("A", Idle), SetStateCall("B", Sealed)}

ScenarioCall(call) ==
    /\ call.name = "advance" => total_offset + call.amount <= ScenarioMaxTotal
    /\ Call(Caller, call)

ScenarioInit ==
    /\ config = TestConfig
    /\ expected_length = [id \in SinkIds |-> Some(ScenarioLength)]
    /\ Fresh
    /\ played = NotPlayed
    /\ script = [on |-> TRUE, at |-> 0]
    /\ Quiet(NoPrograms)

ScenarioNext ==
    \/ \E call \in ScenarioCalls : ScenarioCall(call)
    \/ SetSinksStep(Caller)
    \/ AdvanceStep(Caller)
    \/ ClearSuperflousStep(Caller)
    \/ SinkWrite(Caller)
    \/ SetStateStep(Caller)
    \/ Return(Caller)

ScenarioSpec == ScenarioInit /\ [][ScenarioNext]_vars

\* ------------------- PlayerSpec: the player alone, an errored sink in the queue

\* The amounts the player asks for.
PlayerAmounts == {1, 4, 5, ScenarioLength}

\* A queue that holds a sink in Error; every other sink is Sealed and fully
\* buffered, in the queue or not; the cursor anywhere in the head.
PlayerInit ==
    /\ config = TestConfig
    /\ expected_length = [id \in SinkIds |-> Some(ScenarioLength)]
    /\ \E bad \in SinkIds, r \in Reasons :
          /\ sinks \in {l \in Queues : bad \in Range(l)}
          /\ state = [id \in SinkIds |->
                        IF id = bad THEN Error(r)
                        ELSE IF id \in Range(sinks) THEN Sealed ELSE Idle]
          /\ buffer \in {[id \in SinkIds |-> IF id = bad THEN b ELSE 0..(ScenarioLength - 1)] :
                            b \in {{}, 0..2, 0..(ScenarioLength - 1)}}
    /\ offset \in 0..ScenarioLength
    /\ total_offset = 0
    /\ returned_total = 0
    /\ played = NotPlayed
    /\ responses = <<>>
    /\ script = NoScript
    /\ Quiet(NoPrograms)

\* The player keeps calling advance; nothing else happens.
PlayerNext ==
    \/ \E amount \in PlayerAmounts : Call(Caller, AdvanceCall(amount))
    \/ AdvanceStep(Caller)
    \/ SetStateStep(Caller)
    \/ Return(Caller)

PlayerSpec == PlayerInit /\ [][PlayerNext]_vars /\ WF_vars(PlayerNext)

\* -------- QueueSpec: one set_sinks on a new timeline, then player and ingestion

\* The reasons the ingestions of QueueSpec give: two, so that one Error can follow
\* another.
IngestionReasons == {"e1", "e2"}

\* The states an ingestion gives a sink: every state but Idle.
IngestionStates == {Active, Loading, Sealed} \cup {Error(r) : r \in IngestionReasons}

\* Timeline::new, Sink::new and one set_sinks(list) that has returned: the sinks of
\* the list Active, nothing buffered, the cursor at 0.
QueueInit ==
    /\ config = SmallConfig
    /\ expected_length \in LengthProfiles
    /\ sinks \in Queues
    /\ state = [id \in SinkIds |-> IF id \in Range(sinks) THEN Active ELSE Idle]
    /\ buffer = [id \in SinkIds |-> {}]
    /\ offset = 0
    /\ total_offset = 0
    /\ returned_total = 0
    /\ played = NonePlayed
    /\ responses = <<>>
    /\ script = NoScript
    /\ Quiet(NoPrograms)

\* The calls of the player and of the ingestions: no further set_sinks, no reset,
\* and no state but the ones an ingestion sets.
QueueCalls ==
    {AdvanceCall(amount) : amount \in 1..MaxAmount}
      \cup {PreloadCall, ClearSuperflousCall}
      \cup {WriteCall(id, off, n) : id \in SinkIds, off \in 0..(MaxLen - 1), n \in 1..MaxLen}
      \cup {SetStateCall(id, new) : id \in SinkIds, new \in IngestionStates}

QueueCall(call) ==
    /\ call.name = "write" => call.offset + call.amount <= WriteLimit(call.sink)
    /\ Call(Caller, call)

QueueNext ==
    \/ \E call \in QueueCalls : QueueCall(call)
    \/ AdvanceStep(Caller)
    \/ PreloadStep(Caller)
    \/ ClearSuperflousStep(Caller)
    \/ SinkWrite(Caller)
    \/ SetStateStep(Caller)
    \/ Return(Caller)

QueueSpec == QueueInit /\ [][QueueNext]_vars

\* ------------------------------------ PreloadSpec: the calls of test_preload

\* Sink::new(Some(2)) of test_preload
ShortLength == 2
\* PreloadSpec stops calling advance once total_offset would pass this.
PreloadMaxTotal == 4

\* The calls of test_preload, and for the second sink a short and a long write and
\* the states an ingestion may leave it in.  test_preload moves the cursor with
\* offset.store(2); here the player moves it with advance.
PreloadCalls ==
    {SetSinksCall(<<"A", "B">>), PreloadCall, ResetCall}
      \cup {AdvanceCall(amount) : amount \in {1, 2}}
      \cup {WriteCall("A", 0, 3), WriteCall("B", 0, 1), WriteCall("B", 0, 5)}
      \cup {SetStateCall("A", new) : new \in {Sealed, Loading, Error("e1"), Idle}}
      \cup {SetStateCall("B", new) : new \in {Sealed, Loading, Error("e1")}}

PreloadSpecCall(call) ==
    /\ call.name = "advance" => total_offset + call.amount <= PreloadMaxTotal
    /\ Call(Caller, call)

\* test_preload: a threshold of 3 samples, and two sinks of length 10 or of length 2.
PreloadInit ==
    /\ config = TestConfig
    /\ expected_length \in {[id \in SinkIds |-> Some(ScenarioLength)],
                             [id \in SinkIds |-> Some(ShortLength)]}
    /\ Fresh
    /\ played = NotPlayed
    /\ script = NoScript
    /\ Quiet(NoPrograms)

PreloadNext ==
    \/ \E call \in PreloadCalls : PreloadSpecCall(call)
    \/ SetSinksStep(Caller)
    \/ PreloadStep(Caller)
    \/ ResetStore(Caller)
    \/ AdvanceStep(Caller)
    \/ SinkWrite(Caller)
    \/ SetStateStep(Caller)
    \/ Return(Caller)

PreloadSpec == PreloadInit /\ [][PreloadNext]_vars

\* ------------------ DrainSpec: the player alone, a Sealed sink at the head

\* [A, B] queued and both Sealed; A is a track of length 10 or a live source of
\* unknown length, sealed with 3 samples or with 10; B is complete.
DrainInit ==
    /\ config = TestConfig
    /\ sinks = <<"A", "B">>
    /\ expected_length \in {[id \in SinkIds |-> Some(ScenarioLength)],
                             [id \in SinkIds |-> IF id = "A" THEN None
                                                  ELSE Some(ScenarioLength)]}
    /\ state = [id \in SinkIds |-> Sealed]
    /\ buffer \in {[id \in SinkIds |-> IF id = "A" THEN b ELSE 0..(ScenarioLength - 1)] :
                      b \in {0..2, 0..(ScenarioLength - 1)}}
    /\ offset = 0
    /\ total_offset = 0
    /\ returned_total = 0
    /\ played = NonePlayed
    /\ responses = <<>>
    /\ script = NoScript
    /\ Quiet(NoPrograms)

\* The player keeps calling advance; nothing else happens.
DrainNext ==
    \/ \E amount \in PlayerAmounts : Call(Caller, AdvanceCall(amount))
    \/ AdvanceStep(Caller)
    \/ SetStateStep(Caller)
    \/ Return(Caller)

DrainSpec == DrainInit /\ [][DrainNext]_vars /\ WF_vars(DrainNext)

\* --------------- ServerSpec: the responses of the server for input errors

\* ServerSpec stops after this many responses.
MaxResponses == 2

\* The payloads carried by ParseError and Other.
Messages == {"m1", "m2"}

\* turntable_collab::InputError.
InputError ==
    [tag : {"NotFound", "NoMatch", "UnsupportedType", "NetworkFailed",
            "Invalid", "Unknown"}, msg : {<<>>}]
    \cup [tag : {"ParseError", "Other"}, msg : {<<m>> : m \in Messages}]

\* The InputError of the older ingest crate: no ParseError, Other carries a
\* boxed error (its message stands for it).
IngestInputError == {e \in InputError : e.tag # "ParseError"}

\* Display of both InputError enums, as the pieces of the string.
InputError_to_string(e) ==
    CASE e.tag = "NotFound" -> <<"Input type is supported but resource was not found">>
      [] e.tag = "NoMatch" -> <<"Input did not match">>
      [] e.tag = "UnsupportedType" -> <<"Unsupported input type">>
      [] e.tag = "NetworkFailed" -> <<"Failed to fetch resource">>
      [] e.tag = "ParseError" -> <<"Failed to parse resource: ">> \o e.msg
      [] e.tag = "Invalid" -> <<"Resource is invalid">>
      [] e.tag = "Other" -> e.msg
      [] e.tag = "Unknown" -> <<"An unknown error occurred">>

\* impl From<InputError> for ServerError.
From_InputError(value) ==
    CASE value.tag = "Invalid" -> [tag |-> "InputInvalid", msg |-> <<>>]
      [] value.tag = "NetworkFailed" -> [tag |-> "InputNetworkFailed", msg |-> <<>>]
      [] value.tag = "NoMatch" -> [tag |-> "InputNoMatch", msg |-> <<>>]
      [] value.tag = "NotFound" -> [tag |-> "InputNotFound", msg |-> <<>>]
      [] value.tag = "UnsupportedType" -> [tag |-> "UnsupportedInputType", msg |-> <<>>]
      [] value.tag = "ParseError" -> [tag |-> "InputParseError", msg |-> value.msg]
      [] OTHER -> [tag |-> "Unknown", msg |-> InputError_to_string(value)]

\* Display of the ServerErrors an InputError converts to.
ServerError_to_string(e) ==
    CASE e.tag = "Unknown" -> <<"Unknown internal error: ">> \o e.msg
      [] e.tag = "InputNotFound" -> <<"Input type is supported but resource was not found">>
      [] e.tag = "InputNoMatch" -> <<"Input did not match">>
      [] e.tag = "UnsupportedInputType" -> <<"Unsupported input type">>
      [] e.tag = "InputNetworkFailed" -> <<"Failed to fetch resource">>
      [] e.tag = "InputParseError" -> <<"Failed to parse resource: ">> \o e.msg
      [] e.tag = "InputInvalid" -> <<"Resource is invalid">>

BAD_REQUEST == 400
FORBIDDEN == 403
NOT_FOUND == 404
CONFLICT == 409
INTERNAL_SERVER_ERROR == 500

as_status_code_without_invalid(e) ==
    CASE e.tag = "SuperuserExists" -> CONFLICT
      [] e.tag = "InvalidCredentials" -> BAD_REQUEST
      [] e.tag = "Conflict" -> CONFLICT
      [] e.tag = "NotFound" -> NOT_FOUND
      [] e.tag = "RoomNotActive" -> BAD_REQUEST
      [] e.tag = "UserNotInRoom" -> FORBIDDEN
      [] e.tag = "StreamKeyNotFound" -> NOT_FOUND
      [] e.tag = "StreamKeyNotOwn" -> FORBIDDEN
      [] e.tag = "InputNotFound" -> NOT_FOUND
      [] e.tag = "InputNoMatch" -> BAD_REQUEST
      [] e.tag = "UnsupportedInputType" -> BAD_REQUEST
      [] OTHER -> INTERNAL_SERVER_ERROR

\* ServerError::as_status_code.
as_status_code(e) ==
    CASE e.tag = "SuperuserExists" -> CONFLICT
      [] e.tag = "InvalidCredentials" -> BAD_REQUEST
      [] e.tag = "Conflict" -> CONFLICT
      [] e.tag = "NotFound" -> NOT_FOUND
      [] e.tag = "RoomNotActive" -> BAD_REQUEST
      [] e.tag = "UserNotInRoom" -> FORBIDDEN
      [] e.tag = "StreamKeyNotFound" -> NOT_FOUND
      [] e.tag = "StreamKeyNotOwn" -> FORBIDDEN
      [] e.tag = "InputNotFound" -> NOT_FOUND
      [] e.tag = "InputNoMatch" -> BAD_REQUEST
      [] e.tag = "UnsupportedInputType" -> BAD_REQUEST
      [] e.tag = "InputInvalid" -> BAD_REQUEST
      [] OTHER -> INTERNAL_SERVER_ERROR

\* impl IntoResponse for ServerError: the status and the body.
ServerError_into_response(e) ==
    [status |-> as_status_code(e), body |-> ServerError_to_string(e)]

\* impl IntoResponse for the older InputError.
InputError_into_response(e) ==
    [status |-> CASE e.tag = "NotFound" -> NOT_FOUND
                  [] e.tag = "NoMatch" -> BAD_REQUEST
                  [] e.tag = "UnsupportedType" -> BAD_REQUEST
                  [] e.tag = "Invalid" -> BAD_REQUEST
                  [] OTHER -> INTERNAL_SERVER_ERROR,
     body |-> InputError_to_string(e)]

\* A handler of the server fails with an InputError: `?` converts it to a
\* ServerError, which becomes the response.
Respond(e) ==
    /\ Len(responses) < MaxResponses
    /\ responses' = Append(responses,
           [via |-> "server", error |-> e,
            response |-> ServerError_into_response(From_InputError(e))])

\* A handler of the older ingest crate fails with its InputError, which is
\* the response itself.
RespondIngest(e) ==
    /\ Len(responses) < MaxResponses
    /\ responses' = Append(responses,
           [via |-> "ingest", error |-> e,
            response |-> InputError_into_response(e)])

ServerInit ==
    /\ config = SmallConfig
    /\ expected_length = [id \in SinkIds |-> None]
    /\ Fresh
    /\ played = NotPlayed
    /\ script = NoScript
    /\ Quiet(NoPrograms)

ServerNext ==
    /\ \/ \E e \in InputError : Respond(e)
       \/ \E e \in IngestInputError : RespondIngest(e)
    /\ UNCHANGED <<config, expected_length, buffer, state, sinks, offset,
                   total_offset, pc, mutex, bus, before, returned_total, played,
                   script>>

ServerSpec == ServerInit /\ [][ServerNext]_vars

\* ---- ThreadSpec: the audio thread, the owner and a worker, one shared access a step

\* The audio thread asks for the whole first track, or for half of it and then the
\* rest and more.
AudioPrograms ==
    {<<AdvanceCall(ShortLength)>>,
     <<AdvanceCall(ShortLength - 1), AdvanceCall(ShortLength)>>}

\* The owner of the timeline requeues, drops the head, or looks after preloading.
OwnerPrograms ==
    {<<SetSinksCall(<<"A", "B">>)>>,
     <<SetSinksCall(<<"B">>)>>,
     <<PreloadCall, ClearSuperflousCall, ResetCall>>}

\* The ingestion worker has nothing to do, reports on a sink, loads the rest of B and
\* seals it, or frees all of A but its first sample.
WorkerPrograms ==
    {<<>>,
     <<SetStateCall("A", Loading)>>,
     <<SetStateCall("B", Error("e1")), SetStateCall("B", Sealed)>>,
     <<WriteCall("B", ShortLength - 1, 1), SetStateCall("B", Sealed)>>,
     <<ClearOutsideCall("A", 0, 1, 1)>>}

\* One step of thread t.
ThreadStep(t) ==
    \/ Begin(t)
    \/ SetStateStep(t)
    \/ SinkWrite(t)
    \/ SinkClearOutside(t)
    \/ AdvanceStep(t)
    \/ SetSinksStep(t)
    \/ PreloadStep(t)
    \/ ClearSuperflousStep(t)
    \/ ResetStore(t)
    \/ Return(t)

\* The timeline of test_advancement with short tracks: set_sinks([A, B]) has
\* returned, A is written in full and Sealed, B is written but for its last sample;
\* the three threads have their calls before them.
ThreadInit ==
    /\ config = TestConfig
    /\ expected_length = [id \in SinkIds |-> Some(ShortLength)]
    /\ buffer = [id \in SinkIds |-> IF id = "A" THEN 0..(ShortLength - 1)
                                    ELSE 0..(ShortLength - 2)]
    /\ state = [id \in SinkIds |-> IF id = "A" THEN Sealed ELSE Active]
    /\ sinks = <<"A", "B">>
    /\ offset = 0
    /\ total_offset = 0
    /\ returned_total = 0
    /\ played = NotPlayed
    /\ responses = <<>>
    /\ script = NoScript
    /\ \E a \in AudioPrograms, o \in OwnerPrograms, w \in WorkerPrograms :
           Quiet([t \in Threads |-> CASE t = "audio" -> a
                                      [] t = "owner" -> o
                                      [] t = "worker" -> w])

ThreadNext == \E t \in Threads : ThreadStep(t)

\* Every thread that can take a step takes one in the end.
ThreadSpec ==
    ThreadInit /\ [][ThreadNext]_vars /\ \A t \in Threads : WF_vars(ThreadStep(t))

\* ---------------------------------------------------------------- claims

\* The claims about a call are read where the single caller's call is about to
\* return: `before` is what the call found, the variables are what it leaves.

\* The Vec<TimelineRead> the advance of the single caller returns.
result == pc[Caller].result

\* The Vec<TimelinePreload> the preload of the single caller returns.
intents == pc[Caller].intents

\* The single caller's call of `name` is about to return.
AtReturn(name) == pc[Caller].at = "return" /\ pc[Caller].call.name = name

\* The single caller's advance(n) is about to return.
AdvanceReturns(n) == AtReturn("advance") /\ pc[Caller].call.amount = n

\* C1: total_offset equals the sum of the amounts of every TimelineRead returned
\* so far, and with the reads of an advance about to return it is already their sum;
\* it never decreases, and no step of a call other than advance changes it.
C1_TotalOffsetIsSumOfReads ==
    /\ [](pc[Caller].at = "returned" => total_offset = returned_total)
    /\ [](AtReturn("advance") => total_offset = returned_total + SumAmounts(result))
    /\ [][/\ total_offset' >= total_offset
          /\ pc[Caller].call.name # "advance" => total_offset' = total_offset]_vars

\* C1 witness: several advance calls have returned reads, the last one two of them.
C1_Witness ==
    /\ pc[Caller].at = "returned"
    /\ pc[Caller].call.name = "advance"
    /\ Len(result) = 2
    /\ total_offset > SumAmounts(result)
    /\ total_offset = returned_total

\* A sink that has reached Sealed or Error(_).
Terminal(s) == s = Sealed \/ s.tag = "Error"

\* The events of `events` that are about sink `id`.
EventsOf(events, id) == {i \in 1..Len(events) : events[i].sink_id = id}

\* C2: once a sink is Sealed or Error(_), no step of any call changes its state or
\* publishes a SinkStateUpdate for it.
C2_TerminalStatesNeverChange ==
    [][\A id \in SinkIds :
          Terminal(state[id]) =>
              /\ state'[id] = state[id]
              /\ Len(bus') > Len(bus) => bus'[Len(bus')].sink_id # id]_vars

\* What distance_from_void answered for sink `id` at `off` when the call began.
Avail(id, off) ==
    distance_from_void(before.buffer[id], buffer_expected_length(expected_length[id]), off)

\* The playable sinks of the list when the call began.
PlayableBefore == PlayableSinks(before.sinks, before.state)

\* The amounts of the reads of `reads` that are not from sink `id`.
RECURSIVE SumExcept(_, _)
SumExcept(reads, id) ==
    IF reads = <<>> THEN 0
    ELSE (IF Head(reads).sink = id THEN 0 ELSE Head(reads).amount)
         + SumExcept(Tail(reads), id)

\* C3 as stated: advance(n) returns at most n samples, and fewer than n only if the
\* head sink had fewer than n contiguous samples at the cursor and was not ready to
\* be moved past (still loadable, or its run did not reach the end of the sink).
\* The head is taken to be the first playable sink; a list without one is allowed.
C3_ShortOnlyIfHeadNotReady ==
    AtReturn("advance") =>
        LET n == pc[Caller].call.amount
            sum == SumAmounts(result)
            ps == PlayableBefore
        IN /\ sum <= n
           /\ (sum < n /\ ps # <<>>) =>
                 /\ Avail(Head(ps), before.offset).distance < n
                 /\ \/ is_loadable(before.state[Head(ps)])
                    \/ ~Avail(Head(ps), before.offset).is_end

\* C3 amended: advance(n) returns at most n samples, and fewer than n only if it ran
\* out of playable sinks or stopped at a sink (the head, or a later sink reached by
\* moving past the ones before it) that had fewer contiguous samples at its cursor
\* than were still asked for and was not ready to be moved past.
C3_ShortOnlyIfStoppedOrRanOut ==
    AtReturn("advance") =>
        LET n == pc[Caller].call.amount
            sum == SumAmounts(result)
            ps == PlayableBefore
            Kept(id) == id \in Range(sinks)
            kept == SelectSeq(ps, Kept)
        IN /\ sum <= n
           /\ sum < n =>
                 \/ kept = <<>>
                 \/ LET x == Head(kept)
                        cursor == IF x = Head(ps) THEN before.offset ELSE 0
                        asked == n - SumExcept(result, x)
                    IN /\ Avail(x, cursor).distance < asked
                       /\ \/ is_loadable(before.state[x])
                          \/ ~Avail(x, cursor).is_end

\* C3 witness: advance moved past the head and came up short on the next sink.
C3_Witness ==
    /\ AtReturn("advance")
    /\ result # <<>>
    /\ SumAmounts(result) < pc[Caller].call.amount
    /\ result[1].sink \notin Range(sinks)
    /\ PlayableSinks(sinks, state) # <<>>

\* The case of C4 and C23: the call found the head Sealed and buffered from the
\* cursor to its expected_length, k samples away.
HeadFinishesIn(k) ==
    /\ before.sinks # <<>>
    /\ before.state[Head(before.sinks)] = Sealed
    /\ expected_length[Head(before.sinks)] = Some(before.offset + k)
    /\ Avail(Head(before.sinks), before.offset).distance = k

\* The next playable sink after the head, when the call began.
NextPlayable == Head(PlayableSinks(Tail(before.sinks), before.state))

\* The case of C4: advance(n) was called with 1 <= k < n samples left in the head and
\* at least n - k samples buffered at the start of the next playable sink.
CrossingCase(n, k) ==
    /\ AdvanceReturns(n)
    /\ 1 <= k /\ k < n
    /\ HeadFinishesIn(k)
    /\ PlayableSinks(Tail(before.sinks), before.state) # <<>>
    /\ Avail(NextPlayable, 0).distance >= n - k

\* What C4 says of the reads and of the head.
CrossingReads(n, k) ==
    /\ result = <<[sink |-> Head(before.sinks), offset |-> before.offset, amount |-> k],
                  [sink |-> NextPlayable, offset |-> 0, amount |-> n - k]>>
    /\ Head(before.sinks) \notin Range(sinks)
    /\ state[Head(before.sinks)] = Idle

\* C4 as stated: crossing a track boundary returns the two reads, removes and
\* deactivates the head, and leaves current_offset() = n - k.
C4_CrossingLeavesCursorInNext ==
    \A n \in 1..(MaxAmount + 1), k \in 1..(MaxAmount + 1) :
        CrossingCase(n, k) => (CrossingReads(n, k) /\ offset = n - k)

\* C4 amended: as C4, but current_offset() = n - k only while the next sink is not
\* finished; when the next sink is Sealed and n - k is its expected_length, it is
\* removed and deactivated in the same call and current_offset() = 0.  A next sink
\* that is not finished stays in the list as it was, unless the list holds the head
\* a second time and the next sink is the head itself, removed with it.
C4_CrossingUnlessNextFinished ==
    \A n \in 1..(MaxAmount + 1), k \in 1..(MaxAmount + 1) :
        CrossingCase(n, k) =>
            /\ CrossingReads(n, k)
            /\ IF before.state[NextPlayable] = Sealed
                  /\ expected_length[NextPlayable] = Some(n - k)
               THEN /\ offset = 0
                    /\ NextPlayable \notin Range(sinks)
                    /\ state[NextPlayable] = Idle
               ELSE /\ offset = n - k
                    /\ NextPlayable # Head(before.sinks) =>
                          /\ NextPlayable \in Range(sinks)
                          /\ state[NextPlayable] = before.state[NextPlayable]

\* C4 witness: two reads, the head gone and Idle, the cursor inside the next sink.
C4_Witness ==
    /\ AtReturn("advance")
    /\ Len(result) = 2
    /\ HeadFinishesIn(result[1].amount)
    /\ result[1].sink \notin Range(sinks)
    /\ state[result[1].sink] = Idle
    /\ sinks # <<>> /\ Head(sinks) = result[2].sink
    /\ offset = result[2].amount

\* A TimelineRead.
Read(id, off, n) == [offset |-> off, sink |-> id, amount |-> n]

\* C5: scenario S1 with the calls in the order the specification lists them (A is
\* written and sealed, B is written, and only then set_sinks([A, B])): the four
\* advance calls return [A@0 5], [A@5 4], [A@9 1, B@0 4] and [B@4 1].
C5_S1InSpecOrder ==
    (script.on /\ AtReturn("advance")) =>
        /\ script.at = 5 => result = <<Read("A", 0, 5)>>
        /\ script.at = 6 => result = <<Read("A", 5, 4)>>
        /\ script.at = 7 => result = <<Read("A", 9, 1), Read("B", 0, 4)>>
        /\ script.at = 8 => result = <<Read("B", 4, 1)>>

\* Where sink `id` stands in `list`.
Index(list, id) == CHOOSE i \in 1..Len(list) : list[i] = id

\* C6: the reads of one advance are in list order and contiguous: each has
\* 1 <= amount <= the samples buffered at its offset, no sink comes twice, every
\* read but the first starts at 0, every read but the last ends at the
\* expected_length of its sink.
C6_ReadsInOrderAndContiguous ==
    AtReturn("advance") =>
        \A i \in 1..Len(result) :
            LET r == result[i]
            IN /\ r.amount >= 1
               /\ r.amount <= Avail(r.sink, r.offset).distance
               /\ r.sink \in Range(before.sinks)
               /\ i > 1 => r.offset = 0
               /\ i < Len(result) => expected_length[r.sink] = Some(r.offset + r.amount)
               /\ \A j \in (i + 1)..Len(result) :
                     /\ result[j].sink # r.sink
                     /\ result[j].sink \in Range(before.sinks)
                     /\ Index(before.sinks, r.sink) < Index(before.sinks, result[j].sink)

\* The end of the timeline as C7 puts it: every sink removed, or the head not
\* playable and without samples; of the timeline the call found.
AtEndOfTimeline ==
    \/ before.sinks = <<>>
    \/ /\ ~is_playable(before.state[Head(before.sinks)])
       /\ before.buffer[Head(before.sinks)] = {}

\* C7: for n >= 1, advance(n) returns no read if and only if the player is at the
\* end of the timeline.
C7_EmptyIffEndOfTimeline ==
    (AtReturn("advance") /\ pc[Caller].call.amount >= 1) =>
        (result = <<>> <=> AtEndOfTimeline)

\* The case of C8: advance(n) found a loadable head with k < n samples at the cursor.
UnderflowCase(n, k) ==
    /\ AdvanceReturns(n)
    /\ before.sinks # <<>>
    /\ is_loadable(before.state[Head(before.sinks)])
    /\ Avail(Head(before.sinks), before.offset).distance = k
    /\ k < n

\* The head is kept: not removed, not deactivated.
HeadKept == sinks = before.sinks /\ state = before.state /\ bus = <<>>

\* C8: a loadable head with k < n samples at the cursor makes advance(n) a short
\* read: with k >= 1 the call returns exactly one read (head, cursor, k) and the
\* cursor grows by k, to a sample that is not buffered; a following call with no new
\* data finds no sample at the cursor (k = 0), returns no read and leaves the cursor.
\* Neither call removes or deactivates the head or resets the cursor.
C8_UnderflowShortRead ==
    \A n \in 1..(MaxAmount + 1), k \in 0..(MaxAmount + 1) :
        UnderflowCase(n, k) =>
            /\ result = IF k >= 1 THEN <<Read(Head(before.sinks), before.offset, k)>>
                        ELSE <<>>
            /\ offset = before.offset + k
            /\ Avail(Head(before.sinks), offset).distance = 0
            /\ HeadKept

\* C8 witness: a short read of a loadable head that is still the head.
C8_Witness ==
    /\ AtReturn("advance")
    /\ Len(result) = 1
    /\ result[1].amount < pc[Caller].call.amount
    /\ sinks # <<>> /\ Head(sinks) = result[1].sink
    /\ is_loadable(before.state[Head(before.sinks)])
    /\ offset = result[1].offset + result[1].amount
    /\ result[1].offset > 0

\* C9: advance reads no sink that was not playable (Error, Idle) when it sampled the
\* list and goes on with the first playable one; with [A in Error, B Active holding
\* samples 0..5] and the cursor at 0, advance(5) returns exactly [B@0 5].
C9_ErroredSinksAreSkipped ==
    AtReturn("advance") =>
        LET ps == PlayableBefore
        IN /\ \A i \in 1..Len(result) : is_playable(before.state[result[i].sink])
           /\ (ps # <<>> /\ Avail(Head(ps), before.offset).distance > 0) =>
                 ( /\ result # <<>>
                   /\ result[1] = Read(Head(ps), before.offset,
                                       Min(Avail(Head(ps), before.offset).distance,
                                           pc[Caller].call.amount)) )
           /\ ( /\ before.sinks = <<"A", "B">>
                /\ before.state["A"].tag = "Error"
                /\ before.state["B"] = Active
                /\ before.buffer["B"] = 0..4
                /\ before.offset = 0
                /\ pc[Caller].call.amount = 5 ) => result = <<Read("B", 0, 5)>>

\* C9 witness: scenario S4 has happened.
C9_Witness ==
    /\ AdvanceReturns(5)
    /\ result = <<Read("B", 0, 5)>>
    /\ sinks = <<"A", "B">>
    /\ state["A"].tag = "Error"
    /\ buffer["A"] # {}

\* C10: with the player calling advance and every other sink Sealed and fully
\* buffered, a sink in Error is eventually removed: the list becomes empty.
C10_ErrorSinkEventuallyRemoved == <>is_empty

\* C11: with the list fixed by one set_sinks on a new timeline and the states set by
\* the ingestions only, the first TimelineRead ever returned for a sink has offset
\* 0, also when the sink being played turns to Error and the next one is played.
C11_FirstReadStartsAtZero ==
    AtReturn("advance") =>
        \A i \in 1..Len(result) :
            result[i].sink \notin played.sinks => result[i].offset = 0

\* C12: whenever no call is in progress, the list is not empty and the
\* expected_length of its first sink is known, current_offset() <= that
\* expected_length.
C12_CursorWithinHead ==
    (pc[Caller].at = "returned" /\ sinks # <<>> /\ expected_length[Head(sinks)] # None) =>
        offset <= expected_length[Head(sinks)][1]

\* C13: set_sinks leaves current_offset() and total_offset() as they were, for any
\* old and new list.
C13_SetSinksKeepsCursor ==
    AtReturn("set_sinks") =>
        /\ offset = before.offset
        /\ total_offset = before.total_offset

\* C13 witness: set_sinks was called with the cursor inside a track, it deactivated
\* a sink of the old list, and another sink is the head now.
C13_Witness ==
    /\ AtReturn("set_sinks")
    /\ offset > 0
    /\ total_offset > 0
    /\ sinks # <<>>
    /\ before.sinks # <<>>
    /\ Head(before.sinks) # Head(sinks)
    /\ bus # <<>>
    /\ bus[1].new_state = Idle
    /\ bus[1].sink_id # Head(sinks)

\* C14: set_sinks(new) changes activation only for the difference of the lists: a
\* sink only in the old list ends Idle, a sink only in the new list ends Active, and
\* a sink in both keeps its state and has no SinkStateUpdate published for it.
C14_SetSinksTouchesOnlyDifference ==
    AtReturn("set_sinks") =>
        \A id \in SinkIds :
            /\ (id \in Range(before.sinks) /\ id \notin Range(sinks)) => state[id] = Idle
            /\ (id \notin Range(before.sinks) /\ id \in Range(sinks)) => state[id] = Active
            /\ (id \in Range(before.sinks) /\ id \in Range(sinks)) =>
                  /\ state[id] = before.state[id]
                  /\ EventsOf(bus, id) = {}

\* preload_threshold_in_samples of the configuration.
Threshold == config.preload_threshold_in_samples

\* A TimelinePreload.
Intent(id, off) == [sink_id |-> id, offset |-> off]

\* The call found two sinks in the list, both Active, nothing buffered, the cursor at 0.
TwoFreshActiveSinks ==
    /\ Len(before.sinks) = 2
    /\ before.offset = 0
    /\ \A i \in 1..2 :
          before.state[before.sinks[i]] = Active /\ before.buffer[before.sinks[i]] = {}

\* The call found the head with at least the threshold of contiguous samples at the
\* cursor.
HeadAboveThreshold ==
    /\ before.sinks # <<>>
    /\ Avail(Head(before.sinks), before.offset).distance >= Threshold

\* C15 as stated: preload returns nothing when the head has at least the threshold
\* of contiguous samples at the cursor, whatever the later sinks hold; with two
\* fresh Active sinks and nothing buffered it returns exactly one intent, (head, 0).
C15_OneIntentForFreshSinks ==
    AtReturn("preload") =>
        /\ HeadAboveThreshold => intents = <<>>
        /\ TwoFreshActiveSinks => intents = <<Intent(before.sinks[1], 0)>>

\* C15 amended: as C15, but two fresh Active sinks give exactly the one intent
\* (head, 0) only when the head is at least as long as the threshold (or of unknown
\* length); a shorter head leaves budget, and the intent (second sink, 0) follows.
C15_OneIntentUnlessHeadIsShort ==
    AtReturn("preload") =>
        /\ HeadAboveThreshold => intents = <<>>
        /\ TwoFreshActiveSinks =>
              intents = IF usize_le(Usize(Threshold),
                                    distance_from_end(expected_length[before.sinks[1]], 0))
                        THEN <<Intent(before.sinks[1], 0)>>
                        ELSE <<Intent(before.sinks[1], 0), Intent(before.sinks[2], 0)>>

\* C15 witness: preload returned nothing because the head, still loadable, has the
\* threshold buffered at the cursor, while the next sink is Active and empty.
C15_Witness ==
    /\ AtReturn("preload")
    /\ intents = <<>>
    /\ Len(sinks) = 2
    /\ is_loadable(state[sinks[1]])
    /\ Avail(sinks[1], offset).distance >= Threshold
    /\ state[sinks[2]] = Active /\ buffer[sinks[2]] = {}

\* C16: every intent points at the first sample of its sink that is not buffered,
\* seen from the cursor: current_offset + the run at current_offset for the first
\* sink of the list, the run at 0 for a later sink.  With samples 0..3 in an Active
\* head and the cursor at 2 the head's intent has offset 3.
C16_IntentAtFirstUnbufferedSample ==
    AtReturn("preload") =>
        /\ \A i \in 1..Len(intents) :
              LET id == intents[i].sink_id
                  cursor == IF id = Head(before.sinks) THEN before.offset ELSE 0
              IN /\ id \in Range(before.sinks)
                 /\ intents[i].offset = cursor + Avail(id, cursor).distance
                 /\ intents[i].offset \notin before.buffer[id]
        /\ ( /\ before.sinks # <<>>
             /\ before.state[Head(before.sinks)] = Active
             /\ before.buffer[Head(before.sinks)] = 0..2
             /\ before.offset = 2 ) =>
               (intents # <<>> /\ intents[1] = Intent(Head(before.sinks), 3))

\* C16 witness: the step of scenario S2 with the cursor at 2 has happened.
C16_Witness ==
    /\ AtReturn("preload")
    /\ offset = 2
    /\ buffer["A"] = 0..2
    /\ intents = <<Intent("A", 3)>>
    /\ state["A"] = Active

\* C17: preload returns no intent for a sink that is Idle, Sealed or in Error; a
\* Sealed head with fewer than the threshold buffered at the cursor is passed over
\* without using budget, and planning goes on with the next sink from offset 0: when
\* that sink is loadable and has less than the threshold buffered at 0 it gets the
\* first intent, at the end of its run from 0, and being Sealed the head gets none;
\* with A Sealed after 3 samples and a fresh Active B the plan is [{B, 0}].
C17_NoIntentForUnloadableSink ==
    AtReturn("preload") =>
        /\ \A i \in 1..Len(intents) :
              before.state[intents[i].sink_id] \in {Active, Loading}
        /\ ( /\ before.sinks # <<>>
             /\ before.state[Head(before.sinks)] = Sealed
             /\ Avail(Head(before.sinks), before.offset).distance < Threshold ) =>
               /\ ( /\ Len(before.sinks) >= 2
                    /\ is_loadable(before.state[before.sinks[2]])
                    /\ Avail(before.sinks[2], 0).distance < Threshold ) =>
                      ( /\ intents # <<>>
                        /\ intents[1] = Intent(before.sinks[2],
                                               Avail(before.sinks[2], 0).distance) )
               /\ ( /\ Len(before.sinks) = 2
                    /\ before.buffer[before.sinks[1]] = 0..2
                    /\ before.state[before.sinks[2]] = Active
                    /\ before.buffer[before.sinks[2]] = {} ) =>
                      intents = <<Intent(before.sinks[2], 0)>>

\* C17 witness: the step of scenario S2 with A sealed has happened.
C17_Witness ==
    /\ AtReturn("preload")
    /\ sinks = <<"A", "B">>
    /\ state["A"] = Sealed
    /\ buffer["A"] = 0..2
    /\ offset = 2
    /\ intents = <<Intent("B", 0)>>

\* The cursor preload looks from in the i-th sink of the list.
PlanCursor(i) == IF i = 1 THEN before.offset ELSE 0

\* The budget C18 describes, as preload comes to the i-th sink of the list: the
\* threshold, lowered by min(distance_from_end, budget) for every loadable sink
\* before it.
RECURSIVE Budget(_)
Budget(i) ==
    IF i = 1 THEN Threshold
    ELSE LET b == Budget(i - 1)
             id == before.sinks[i - 1]
             to_end == distance_from_end(expected_length[id], PlanCursor(i - 1))
         IN IF before.state[id] \in {Active, Loading}
            THEN b - (IF usize_le(to_end, Usize(b)) THEN usize_to_nat(to_end) ELSE b)
            ELSE b

\* Planning comes to the i-th sink and does not stop there: so far the budget is
\* above 0 and no sink has the threshold buffered at its cursor.
Reached(i) ==
    \A j \in 1..i :
        Budget(j) > 0 /\ Avail(before.sinks[j], PlanCursor(j)).distance < Threshold

\* The caller's preload is in its loop, at the sink at place k of its snapshot.
InPreloadLoop ==
    /\ pc[Caller].at \in {"preload: for sink", "preload: is_loadable"}
    /\ pc[Caller].k <= Len(before.sinks)

\* The places of the list whose sinks get an intent: planning comes to them and they
\* are loadable.
PlanPlaces ==
    {i \in 1..Len(before.sinks) :
        Reached(i) /\ before.state[before.sinks[i]] \in {Active, Loading}}

\* remaining_to_load is the budget as C18 describes it, with every sink the loop comes
\* to: it starts at the threshold, goes down by min(distance_from_end, budget) with
\* every intent, never below 0, and a sink is only looked at for an intent while it
\* is above 0; the intents returned are those of the places planned, in list order.
PlanFollowsBudget ==
    /\ InPreloadLoop =>
          /\ pc[Caller].remaining = Budget(pc[Caller].k)
          /\ pc[Caller].remaining >= 0
          /\ pc[Caller].remaining <= Threshold
    /\ pc[Caller].at = "preload: is_loadable" => pc[Caller].remaining > 0
    /\ AtReturn("preload") =>
          /\ pc[Caller].remaining >= 0
          /\ Len(intents) = Cardinality(PlanPlaces)
          /\ \A i \in 1..Len(intents) :
                \E p \in PlanPlaces :
                    /\ Cardinality({q \in PlanPlaces : q < p}) = i - 1
                    /\ intents[i].sink_id = before.sinks[p]

\* C18: preload plans under a budget that starts at the threshold, goes down by
\* min(distance_from_end, budget) with every intent, never below 0, and stops the
\* planning at 0; the result holds at most one intent per sink, in list order.  Two
\* fresh Active sinks of length 2 under threshold 3 give [{A, 0}, {B, 0}].
C18_PreloadBudget ==
    /\ PlanFollowsBudget
    /\ AtReturn("preload") =>
          /\ \A i \in 1..Len(intents) : \A j \in (i + 1)..Len(intents) :
                intents[i].sink_id # intents[j].sink_id
          /\ ( /\ TwoFreshActiveSinks
               /\ Threshold = 3
               /\ \A i \in 1..2 : expected_length[before.sinks[i]] = Some(2) ) =>
                 intents = <<Intent(before.sinks[1], 0), Intent(before.sinks[2], 0)>>

\* C19: preload changes neither the cursor, total_offset, the list, any sink state
\* nor any buffer and publishes no event, and a preload that follows a preload
\* with no other call between them plans the same intents.
C19_PreloadIsReadOnly ==
    AtReturn("preload") =>
        /\ offset = before.offset
        /\ total_offset = before.total_offset
        /\ sinks = before.sinks
        /\ state = before.state
        /\ buffer = before.buffer
        /\ bus = <<>>
        /\ before.again => intents = before.intents

\* C19 witness: a second preload in a row has planned two intents with the cursor
\* inside the head.
C19_Witness ==
    /\ AtReturn("preload")
    /\ before.again
    /\ Len(intents) = 2
    /\ offset > 0
    /\ total_offset > 0

\* A SinkStateUpdate event.
SinkStateUpdate(id, s) == [sink_id |-> id, new_state |-> s]

\* The states after the events `events` are applied to `st`, one by one.
RECURSIVE Replay(_, _)
Replay(st, events) ==
    IF events = <<>> THEN st
    ELSE Replay([st EXCEPT ![Head(events).sink_id] = Head(events).new_state],
                Tail(events))

\* Every event of `events` changes the state of its sink.
RECURSIVE EveryEventChanges(_, _)
EveryEventChanges(st, events) ==
    \/ events = <<>>
    \/ /\ st[Head(events).sink_id] # Head(events).new_state
       /\ EveryEventChanges(Replay(st, <<Head(events)>>), Tail(events))

\* C20: set_state(s) on a sink whose state differs from s (an Error of another
\* reason differs) publishes exactly one SinkStateUpdate {id, s} and stores s; when
\* the state is s it publishes and changes nothing.  So in every call the events
\* published are exactly the changes of the stored states, one event each.
C20_OneEventPerStateChange ==
    /\ AtReturn("set_state") =>
          LET id == pc[Caller].call.sink
              s == pc[Caller].call.new
          IN IF before.state[id] = s
             THEN bus = <<>> /\ state = before.state
             ELSE /\ bus = <<SinkStateUpdate(id, s)>>
                  /\ state = [before.state EXCEPT ![id] = s]
    /\ pc[Caller].at = "return" =>
          /\ Replay(before.state, bus) = state
          /\ EveryEventChanges(before.state, bus)

\* C20 witness: an ingestion sets Error on a sink that is in Error with another
\* reason: the change has published its event.
C20_Witness ==
    /\ AtReturn("set_state")
    /\ before.state["A"] = Error("e1")
    /\ bus = <<SinkStateUpdate("A", Error("e2"))>>
    /\ state["A"] = Error("e2")

\* C22: is_playable holds exactly of Active, Loading and Sealed, is_loadable exactly
\* of Active and Loading, is_clearable exactly of Idle, whatever the reason of an
\* Error; so a loadable sink is playable and an Idle one is neither.
C22_Classification ==
    \A s \in SinkState \cup IngestionStates \cup {state[id] : id \in SinkIds} :
        /\ is_playable(s) <=> s \in {Active, Loading, Sealed}
        /\ is_loadable(s) <=> s \in {Active, Loading}
        /\ is_clearable(s) <=> s = Idle
        /\ is_loadable(s) => is_playable(s)
        /\ s = Idle => (~is_playable(s) /\ ~is_loadable(s))

\* C22 witness: advance has classified sinks of every kind: it passed over a sink in
\* Error that it had played before to read a loadable one.
C22_Witness ==
    /\ AtReturn("advance")
    /\ result # <<>>
    /\ \E a, b \in SinkIds :
          /\ state[a].tag = "Error" /\ a \in Range(sinks) /\ a \in played.sinks
          /\ is_loadable(state[b]) /\ result[Len(result)].sink = b
          /\ Index(sinks, a) < Index(sinks, b)

\* C23: a Sealed head buffered to its expected_length, k >= 1 samples away, and
\* advance(k): one read (head, cursor, k), the head removed (every entry of it,
\* should the list hold it twice) and Idle, the cursor 0.
\* And an advance called with the cursor at 0 starts its first read, if it returns
\* one, at offset 0 of a sink of the list, so of another sink than the one removed.
C23_ExactConsumption ==
    AtReturn("advance") =>
        /\ \A k \in 1..(MaxAmount + 1) :
              (HeadFinishesIn(k) /\ pc[Caller].call.amount = k) =>
                  /\ result = <<Read(Head(before.sinks), before.offset, k)>>
                  /\ Head(before.sinks) \notin Range(sinks)
                  /\ sinks = Retain(before.sinks, Head(before.sinks))
                  /\ state[Head(before.sinks)] = Idle
                  /\ offset = 0
        /\ (before.offset = 0 /\ result # <<>>) =>
              /\ result[1].offset = 0
              /\ result[1].sink = Head(PlayableBefore)

\* C23 witness: an advance returned one read that ends its sink, the sink is gone
\* from the list and Idle, the cursor is 0 and another sink is the head.
C23_Witness ==
    /\ AtReturn("advance")
    /\ Len(result) = 1
    /\ result[1].amount = pc[Caller].call.amount
    /\ expected_length[result[1].sink] = Some(result[1].offset + result[1].amount)
    /\ result[1].offset > 0
    /\ result[1].sink \notin Range(sinks)
    /\ state[result[1].sink] = Idle
    /\ offset = 0
    /\ sinks # <<>>

\* C26: preload plans for a sink that is Loading as for one that is Active: a Loading
\* sink that planning comes to, with less than the threshold buffered at its cursor,
\* gets an intent at the end of its buffered run, a load in flight or not.
C26_LoadingSinkIsPlannedAgain ==
    AtReturn("preload") =>
        \A i \in 1..Len(before.sinks) :
            (before.state[before.sinks[i]] = Loading /\ Reached(i)) =>
                \E j \in 1..Len(intents) :
                    intents[j] = Intent(before.sinks[i],
                                        PlanCursor(i)
                                          + Avail(before.sinks[i], PlanCursor(i)).distance)

\* C26 witness: preload has planned the head while it is Loading, part of it
\* buffered already, and the next sink, Loading too and empty.
C26_Witness ==
    /\ AtReturn("preload")
    /\ sinks = <<"A", "B">>
    /\ state["A"] = Loading /\ state["B"] = Loading
    /\ buffer["A"] # {}
    /\ Len(intents) = 2
    /\ intents[1].sink_id = "A" /\ intents[1].offset > offset
    /\ intents[2] = Intent("B", 0)

\* The sink the next advance would read at the cursor: the first playable one.
CursorSink == Head(PlayableBefore)

\* C28: the sink that advance would read at current_offset() is the sink preload
\* and clear_superflous apply current_offset() to: if it is loadable with less than
\* the threshold buffered at the cursor, preload returns the intent (that sink,
\* cursor + run), and clear_superflous clears that sink around the cursor and no
\* other, also when a sink in Error stands before it in the list.
C28_OneSinkUnderTheCursor ==
    (pc[Caller].at = "return" /\ PlayableBefore # <<>>) =>
        /\ ( /\ AtReturn("preload")
             /\ is_loadable(before.state[CursorSink])
             /\ Avail(CursorSink, before.offset).distance < Threshold ) =>
               \E j \in 1..Len(intents) :
                   intents[j] = Intent(CursorSink,
                                       before.offset
                                         + Avail(CursorSink, before.offset).distance)
        /\ AtReturn("clear_superflous") =>
               buffer = [before.buffer EXCEPT
                           ![CursorSink] =
                               clear_outside(@, before.offset,
                                             config.preload_size_in_samples * 4,
                                             config.channel_count)]

\* C27: with the head A Sealed and the player calling advance, A is eventually
\* removed and the next sink B is read, from offset 0; also when A was sealed with
\* 3 of its 10 samples buffered, and when its length is unknown.
C27_SealedHeadIsEventuallyLeft ==
    /\ <>("A" \notin Range(sinks) /\ "B" \in played.sinks)
    /\ [](AtReturn("advance") =>
            \A i \in 1..Len(result) :
                (result[i].sink = "B" /\ "B" \notin played.sinks) => result[i].offset = 0)

\* C25: an InputError that reaches the client through From<InputError> for
\* ServerError and ServerError::as_status_code has status 404 for NotFound,
\* 400 for NoMatch, UnsupportedType and Invalid, and 500 for NetworkFailed,
\* ParseError, Other and Unknown; the older InputError::into_response gives
\* each of its variants the status the server gives that variant.
C25_StatusOfInputErrors ==
    \A i \in 1..Len(responses) :
        LET r == responses[i] IN
        /\ r.via = "server" =>
               /\ r.error.tag = "NotFound" => r.response.status = 404
               /\ r.error.tag \in {"NoMatch", "UnsupportedType", "Invalid"}
                      => r.response.status = 400
               /\ r.error.tag \in {"NetworkFailed", "ParseError", "Other", "Unknown"}
                      => r.response.status = 500
        /\ r.via = "ingest" =>
               /\ r.error \in IngestInputError
               /\ r.response.status = as_status_code(From_InputError(r.error))

\* The server has answered an Invalid input, the older crate an Other error.
C25_Witness ==
    /\ \E i \in 1..Len(responses) :
           responses[i].via = "server" /\ responses[i].error.tag = "Invalid"
    /\ \E i \in 1..Len(responses) :
           responses[i].via = "ingest" /\ responses[i].error.tag = "Other"

\* C21: a SinkStateUpdate event is delivered after the state transition it
\* reports: at the step that hands the event for new_state to the event bus,
\* the stored state of the sink already equals new_state.
C21_EventAfterTransition ==
    [][bus' # bus =>
          LET event == bus'[Len(bus')]
          IN state[event.sink_id] = event.new_state]_vars

\* No thread is inside a call.
Quiescent == \A t \in Threads : pc[t].at = "returned"

\* C24: with the audio thread running advance and the owner running set_sinks
\* (no ingestion worker), whenever no call is in progress every sink of the list
\* is not Idle and every sink dropped from the list is not Active.
C24_ActivationFollowsMembership ==
    (pc["worker"].program = <<>> /\ Quiescent) =>
        \A id \in SinkIds :
            /\ id \in Range(sinks) => state[id] # Idle
            /\ id \notin Range(sinks) => state[id] # Active

\* The events published for sink `id`, in order.
EventsFor(events, id) == SelectSeq(events, LAMBDA e : e.sink_id = id)

\* Thread t is inside set_state on sink `id`.
InSetState(t, id) ==
    /\ pc[t].sink = id
    /\ pc[t].at \in {"set_state: state.lock()", "set_state: emit", "set_state: store"}

\* An event for `id` is published only when the one before it has been stored
\* and differs from it; the stored state of `id` changes only to the new_state of
\* the last event published for it.
PublishedInOrder(id) ==
    LET earlier == EventsFor(bus, id)
        later == EventsFor(bus', id)
    IN /\ later # earlier =>
              /\ state'[id] = state[id]
              /\ earlier # <<>> => earlier[Len(earlier)].new_state = state[id]
              /\ later[Len(later)].new_state # state[id]
       /\ state'[id] # state[id] =>
              /\ later = earlier
              /\ earlier # <<>>
              /\ state'[id] = earlier[Len(earlier)].new_state

\* C29: under every interleaving of set_state calls on one sink (advance and
\* set_sinks deactivating and activating it, the worker reporting on it) the
\* events for the sink are published in the order of the changes of its stored
\* state, no two consecutive events for it carry the same new_state, and when no
\* call on it is in progress its stored state is the new_state of the last event
\* published for it.
C29_EventsFollowStateChanges ==
    /\ [](\A id \in SinkIds :
            LET events == EventsFor(bus, id)
            IN /\ \A i \in 1..(Len(events) - 1) :
                      events[i].new_state # events[i + 1].new_state
               /\ (events # <<>> /\ \A t \in Threads : ~InSetState(t, id))
                      => state[id] = events[Len(events)].new_state)
    /\ [][\A id \in SinkIds : PublishedInOrder(id)]_vars

\* Two threads are in set_state on A at once, one holding the state mutex with
\* its event published and not yet stored, the other waiting for the mutex;
\* an earlier event for A has been published before.
C29_Witness ==
    \E t1, t2 \in Threads :
        /\ t1 # t2
        /\ mutex["A"] = t1
        /\ pc[t1].sink = "A"
        /\ pc[t1].at = "set_state: store"
        /\ pc[t2].sink = "A"
        /\ pc[t2].at = "set_state: state.lock()"
        /\ Len(EventsFor(bus, "A")) >= 2

\* Thread t is inside advance.
InAdvance(t) ==
    /\ pc[t].at # "returned"
    /\ pc[t].call.name = "advance"

\* The next step of thread t takes the mutex of the sink list.
WaitsForSinks(t) ==
    pc[t].at \in {"advance: sinks.lock()", "advance: retain", "set_sinks: sinks.lock()",
                  "preload: sinks.lock()", "clear_superflous: sinks.lock()"}

\* C30: with advance on the audio thread and set_sinks, preload,
\* clear_superflous, reset and set_state on the others, no thread waits for the
\* mutex of the sink list while it holds the state mutex of a sink, advance does
\* not hold the mutex of the list at the step where it publishes an event, every
\* advance call returns, and in the end every thread has made all its calls.
C30_AudioPathCannotDeadlock ==
    /\ [](\A t \in Threads :
            /\ WaitsForSinks(t) => \A id \in SinkIds : mutex[id] # t
            /\ (InAdvance(t) /\ pc[t].at = "set_state: emit")
                   => mutex[SinksMutex] # t)
    /\ \A t \in Threads : InAdvance(t) ~> pc[t].at = "returned"
    /\ <>(\A t \in Threads :
            pc[t].at = "returned" /\ pc[t].done = Len(pc[t].program))

\* advance waits to retain the sink it has deactivated while the owner, inside
\* set_sinks, holds the mutex of the list and the state mutex of a sink.
C30_Witness ==
    /\ InAdvance("audio")
    /\ pc["audio"].at = "advance: retain"
    /\ mutex[SinksMutex] = "owner"
    /\ \E id \in SinkIds : mutex[id] = "owner"

====
